---- MODULE Spec2Model ----
(***************************************************************************)
(* surfline2influxdb: main.go.  One goroutine per configured spot runs     *)
(* fetchAndInsert with a bounded retry loop and reports its outcome on one *)
(* of two buffered channels; main collects one outcome per spot.           *)
(***************************************************************************)
EXTENDS Integers, Sequences, FiniteSets, TLC

\* ------------------------------------------------------------------------
\* Program constants
\* ------------------------------------------------------------------------
maxRetries == 3

\* retryDelay, in seconds
retryDelay == 5

\* ------------------------------------------------------------------------
\* Bounds of the model
\* ------------------------------------------------------------------------
\* number of entries of cfg.Spots
NumSpots == 2

\* largest number of records in one forecast response
MaxRecords == 1

\* largest number of swell components of one wave record
MaxSwells == 1

\* ------------------------------------------------------------------------
\* Configuration and environment
\* ------------------------------------------------------------------------
\* spot identifiers the configuration may name: the first and the third are
\* known to getFriendlyNameForSpot, the others are not
SpotIdPool ==
  << "5842041f4e65fad6a7708841", "0000unmapped0000", "5842041f4e65fad6a770883c",
     "1111unmapped1111" >>

SpotKeys == 1..NumSpots

\* cfg.Spots: label -> spot identifier
cfgSpots == [l \in SpotKeys |-> SpotIdPool[l]]

\* the errors the ForecastClient operations return; NoCause is a nil error.
\* The code only wraps and forwards the cause, so one value stands for all.
Causes == {"provider error"}

NoCause == "nil"

NoErr == [kind |-> "none", spot |-> "", cause |-> NoCause, attempt |-> 0]

VARIABLES
  mainPc,     \* position of main: "spawn", "wait", "collect", "done"
  i,          \* loop variable of the collection loop
  wgCounter,  \* counter of the sync.WaitGroup wg
  errCh,      \* buffered channel of errors
  doneCh,     \* buffered channel of bool
  crashed,    \* the process was terminated by an unrecovered panic
  pc,         \* position of each spot's goroutine
  retries,    \* local variable retries of each goroutine
  err,        \* local variable err of each goroutine
  attempts,   \* number of calls of fetchAndInsert made by each goroutine
  sleeps,     \* durations of the time.Sleep calls made by each goroutine
  calls,      \* ForecastClient calls of the current attempt and their results
  allFailed,  \* every ForecastClient call of the finished attempts failed
  inserted,   \* insert calls of the current attempt: kind and response size
  sent,       \* number of channel sends made by each goroutine: [err, done]
  logged,     \* errors main has received from errCh and logged
  doneSeen,   \* number of values main has received from doneCh
  env,        \* what the provider and the clock return during this run
  builder     \* one call of an insert function: its spot, its kind, its WritePoint calls

vars ==
  << mainPc, i, wgCounter, errCh, doneCh, crashed, pc, retries, err, attempts,
     sleeps, calls, allFailed, inserted, sent, logged, doneSeen, env, builder >>

envVars == << env, builder >>

mainVars == << mainPc, i, wgCounter, logged, doneSeen >>

spotVars == << pc, retries, err, attempts, sleeps, calls, allFailed, inserted, sent >>

\* ------------------------------------------------------------------------
\* Helpers: formatting and time arithmetic as Go computes them
\* ------------------------------------------------------------------------
Digit(d) == SubSeq("0123456789", d + 1, d + 1)

RECURSIVE FormatNat(_)
\* fmt.Sprintf("%d", n) for n >= 0
FormatNat(n) == IF n < 10 THEN Digit(n) ELSE FormatNat(n \div 10) \o Digit(n % 10)

\* fmt.Sprintf("%d", n)
FormatInt(n) == IF n < 0 THEN "-" \o FormatNat(0 - n) ELSE FormatNat(n)

RECURSIVE PadNat(_, _)
\* n >= 0 in decimal, zero-padded on the left to w digits
PadNat(n, w) == IF w = 0 THEN "" ELSE PadNat(n \div 10, w - 1) \o Digit(n % 10)

\* fmt.Sprintf("%f", x) of a float held in millionths
FormatFloat(x) ==
  LET a == IF x < 0 THEN 0 - x ELSE x
  IN  (IF x < 0 THEN "-" ELSE "") \o FormatNat(a \div 1000000) \o "." \o PadNat(a % 1000000, 6)

\* int(f) of Go: the conversion of a float to int truncates toward zero
TruncDiv(a, b) == IF a >= 0 THEN a \div b ELSE 0 - ((0 - a) \div b)

\* int(currentTime.Sub(forecastTime).Hours()), times in seconds
forecastAgeHours(currentTime, forecastTime) == TruncDiv(currentTime - forecastTime, 3600)

RECURSIVE Flatten(_)
Flatten(ss) == IF ss = << >> THEN << >> ELSE Head(ss) \o Flatten(Tail(ss))

\* ------------------------------------------------------------------------
\* getFriendlyNameForSpot
\* ------------------------------------------------------------------------
\* getFriendlyNameForSpot as a lookup with no default: the empty string for
\* an identifier that is not mapped
getFriendlyNameNoDefault(spotId) ==
  CASE spotId = "5842041f4e65fad6a7708841" -> "Pacific Beach"
    [] spotId = "5842041f4e65fad6a770883c" -> "Windansea Beach"
    [] spotId = "5842041f4e65fad6a77088cc" -> "La Jolla Shores"
    [] spotId = "5842041f4e65fad6a770883f" -> "Ocean Beach"
    [] OTHER -> ""

getFriendlyNameForSpot(spotId) ==
  CASE spotId = "5842041f4e65fad6a7708841" -> "Pacific Beach"
    [] spotId = "5842041f4e65fad6a770883c" -> "Windansea Beach"
    [] spotId = "5842041f4e65fad6a77088cc" -> "La Jolla Shores"
    [] spotId = "5842041f4e65fad6a770883f" -> "Ocean Beach"
    [] OTHER -> "Unknown"

\* ------------------------------------------------------------------------
\* Decoded responses of the ForecastClient (surflineapi) operations
\* ------------------------------------------------------------------------
\* epoch second of the first record of a response
BaseTime == 1700000000

\* the records of a response are one hour apart
RecTimestamp(k) == BaseTime + (k - 1) * 3600

\* reading of time.Now() during the run: two hours after BaseTime
Now == BaseTime + 7200

\* a nil response pointer
NilResponse == [nil |-> TRUE]

WindResponse(n) ==
  [ nil |-> FALSE,
    Associated |-> [Location |-> [Lat |-> 32797000, Lon |-> 0 - 117259000]],
    Data |-> [Wind |-> [k \in 1..n |->
      [ Timestamp |-> RecTimestamp(k), Speed |-> 12 + k, Direction |-> 270,
        DirectionType |-> "Offshore", Gust |-> 15 + k, OptimalScore |-> 2,
        UtcOffset |-> 0 - 7 ]]] ]

WaveResponse(n, m) ==
  [ nil |-> FALSE,
    Data |-> [Wave |-> [k \in 1..n |->
      [ Timestamp |-> RecTimestamp(k), Probability |-> 100, UtcOffset |-> 0 - 7,
        Surf |-> [Min |-> 2, Max |-> 3 + k, OptimalScore |-> 1, HumanRelation |-> "Waist to chest",
                  Raw |-> [Min |-> 2, Max |-> 4]],
        Power |-> 120 + k,
        Swells |-> [j \in 1..m |->
          [ Height |-> j, Period |-> 10 + j, Impact |-> 1, Power |-> 50 + j,
            Direction |-> 280, DirectionMin |-> 275, OptimalScore |-> 0 ]] ]]] ]

TideResponse(n) ==
  [ nil |-> FALSE,
    Associated |-> [TideLocation |-> [Name |-> "La Jolla", Lat |-> 32867000, Lon |-> 0 - 117257000]],
    Data |-> [Tides |-> [k \in 1..n |->
      [ Timestamp |-> RecTimestamp(k), Type |-> "NORMAL", Height |-> k, UtcOffset |-> 0 - 7 ]]] ]

RatingResponse(n) ==
  [ nil |-> FALSE,
    Data |-> [Rating |-> [k \in 1..n |->
      [ Timestamp |-> RecTimestamp(k), UtcOffset |-> 0 - 7,
        Rating |-> [Key |-> "FAIR", Value |-> 2 + k] ]]] ]

\* the environment of one run, the same for every call of the run (a run
\* lasts seconds): the reading of the clock, the size of the provider's
\* responses, and the WritePoint calls of an insert that fail
\* (none of them, all of them, or the first and every second one after it)
Envs ==
  { [now |-> Now, nrec |-> MaxRecords, nswell |-> MaxSwells, wfail |-> w] :
      w \in {"none", "all", "odd"} }

\* ------------------------------------------------------------------------
\* influxdb2.NewPoint and WritePoint
\* ------------------------------------------------------------------------
NewPoint(measurement, tags, fields, ts) ==
  [measurement |-> measurement, tags |-> tags, fields |-> fields, ts |-> ts]

\* does the k-th WritePoint call of an insert return nil
WriteOk(wfail, k) ==
  CASE wfail = "none" -> TRUE
    [] wfail = "all" -> FALSE
    [] OTHER -> k % 2 = 0

\* WritePoint calls of an insert that returns at the first failed write
WritePointsStopAtError(ps, wfail) ==
  LET failing == {k \in 1..Len(ps) : ~WriteOk(wfail, k)}
      stop == IF failing = {} THEN Len(ps)
              ELSE CHOOSE k \in failing : \A j \in failing : k <= j
  IN  [k \in 1..stop |-> [point |-> ps[k], ok |-> WriteOk(wfail, k)]]

\* the WritePoint calls made for the points ps, in order, with their results
WritePoints(ps, wfail) == [k \in 1..Len(ps) |-> [point |-> ps[k], ok |-> WriteOk(wfail, k)]]

\* ------------------------------------------------------------------------
\* The insert functions: the points each passes to WritePoint, in order
\* ------------------------------------------------------------------------
windPoints(spotId, windForecast, now) ==
  Flatten([k \in 1..Len(windForecast.Data.Wind) |->
    LET windDetail == windForecast.Data.Wind[k]
        age == forecastAgeHours(now, windDetail.Timestamp)
        loc == FormatFloat(windForecast.Associated.Location.Lat) \o "," \o
               FormatFloat(windForecast.Associated.Location.Lon)
        tagsWithoutAge ==
          ("location" :> loc) @@ ("spotId" :> spotId) @@
          ("spotName" :> getFriendlyNameForSpot(spotId))
        tagsWithAge == tagsWithoutAge @@ ("age_h" :> FormatInt(age))
        fields ==
          [ speed |-> windDetail.Speed, direction |-> windDetail.Direction,
            directionType |-> windDetail.DirectionType, gust |-> windDetail.Gust,
            optimalScore |-> windDetail.OptimalScore, utcOffset |-> windDetail.UtcOffset ]
    IN  << NewPoint("windForecast", tagsWithAge, fields, windDetail.Timestamp),
           NewPoint("windForecast", tagsWithoutAge, fields, windDetail.Timestamp) >>])

\* wavePoints with a swell loop that writes the age-bearing variant only
wavePointsOneSwellVariant(spotId, waveForecast, now) ==
  Flatten([k \in 1..Len(waveForecast.Data.Wave) |->
    LET waveData == waveForecast.Data.Wave[k]
        age == forecastAgeHours(now, waveData.Timestamp)
        fields ==
          [ probability |-> waveData.Probability, minSurf |-> waveData.Surf.Min,
            maxSurf |-> waveData.Surf.Max, optimalScore |-> waveData.Surf.OptimalScore,
            humanRelation |-> waveData.Surf.HumanRelation,
            rawMinSurf |-> waveData.Surf.Raw.Min, rawMaxSurf |-> waveData.Surf.Raw.Max,
            power |-> waveData.Power, utcOffset |-> waveData.UtcOffset ]
        tagsWithoutAge ==
          ("spotId" :> spotId) @@ ("spotName" :> getFriendlyNameForSpot(spotId))
        tagsWithAge == tagsWithoutAge @@ ("age_h" :> FormatInt(age))
        swellPoints ==
          Flatten([j \in 1..Len(waveData.Swells) |->
            LET swell == waveData.Swells[j]
                swellFields ==
                  [ height |-> swell.Height, period |-> swell.Period, impact |-> swell.Impact,
                    power |-> swell.Power, direction |-> swell.Direction,
                    directionMin |-> swell.DirectionMin, optimalScore |-> swell.OptimalScore ]
            IN  << NewPoint("swellForecast", tagsWithAge, swellFields, waveData.Timestamp) >>])
    IN  << NewPoint("waveForecast", tagsWithAge, fields, waveData.Timestamp),
           NewPoint("waveForecast", tagsWithoutAge, fields, waveData.Timestamp) >>
        \o swellPoints])

wavePoints(spotId, waveForecast, now) ==
  Flatten([k \in 1..Len(waveForecast.Data.Wave) |->
    LET waveData == waveForecast.Data.Wave[k]
        age == forecastAgeHours(now, waveData.Timestamp)
        fields ==
          [ probability |-> waveData.Probability, minSurf |-> waveData.Surf.Min,
            maxSurf |-> waveData.Surf.Max, optimalScore |-> waveData.Surf.OptimalScore,
            humanRelation |-> waveData.Surf.HumanRelation,
            rawMinSurf |-> waveData.Surf.Raw.Min, rawMaxSurf |-> waveData.Surf.Raw.Max,
            power |-> waveData.Power, utcOffset |-> waveData.UtcOffset ]
        tagsWithoutAge ==
          ("spotId" :> spotId) @@ ("spotName" :> getFriendlyNameForSpot(spotId))
        tagsWithAge == tagsWithoutAge @@ ("age_h" :> FormatInt(age))
        swellPoints ==
          Flatten([j \in 1..Len(waveData.Swells) |->
            LET swell == waveData.Swells[j]
                swellFields ==
                  [ height |-> swell.Height, period |-> swell.Period, impact |-> swell.Impact,
                    power |-> swell.Power, direction |-> swell.Direction,
                    directionMin |-> swell.DirectionMin, optimalScore |-> swell.OptimalScore ]
            IN  << NewPoint("swellForecast", tagsWithAge, swellFields, waveData.Timestamp),
                   NewPoint("swellForecast", tagsWithoutAge, swellFields, waveData.Timestamp) >>])
    IN  << NewPoint("waveForecast", tagsWithAge, fields, waveData.Timestamp),
           NewPoint("waveForecast", tagsWithoutAge, fields, waveData.Timestamp) >>
        \o swellPoints])

tidePoints(spotId, tideForecast, now) ==
  Flatten([k \in 1..Len(tideForecast.Data.Tides) |->
    LET tideInfo == tideForecast.Data.Tides[k]
        age == forecastAgeHours(now, tideInfo.Timestamp)
        loc == FormatFloat(tideForecast.Associated.TideLocation.Lat) \o "," \o
               FormatFloat(tideForecast.Associated.TideLocation.Lon)
        tagsWithoutAge ==
          ("location" :> loc) @@ ("name" :> tideForecast.Associated.TideLocation.Name) @@
          ("spotId" :> spotId) @@ ("spotName" :> getFriendlyNameForSpot(spotId))
        tagsWithAge == tagsWithoutAge @@ ("age_h" :> FormatInt(age))
        fields ==
          [type |-> tideInfo.Type, height |-> tideInfo.Height, utcOffset |-> tideInfo.UtcOffset]
    IN  << NewPoint("tideForecast", tagsWithAge, fields, tideInfo.Timestamp),
           NewPoint("tideForecast", tagsWithoutAge, fields, tideInfo.Timestamp) >>])

ratingPoints(spotId, ratingForecast, now) ==
  Flatten([k \in 1..Len(ratingForecast.Data.Rating) |->
    LET rating == ratingForecast.Data.Rating[k]
        age == forecastAgeHours(now, rating.Timestamp)
        fields == [ratingValue |-> rating.Rating.Value, utcOffset |-> rating.UtcOffset]
        tagsWithAge ==
          ("spotId" :> spotId) @@ ("ratingKey" :> rating.Rating.Key) @@
          ("spotName" :> getFriendlyNameForSpot(spotId)) @@ ("age_h" :> FormatInt(age))
        tagsWithoutAge ==
          ("spotId" :> spotId) @@ ("ratingKey" :> rating.Rating.Key) @@
          ("spotName" :> getFriendlyNameForSpot(spotId)) @@ ("age_h" :> FormatInt(age))
    IN  << NewPoint("spotForecast", tagsWithAge, fields, rating.Timestamp),
           NewPoint("spotForecast", tagsWithoutAge, fields, rating.Timestamp) >>])

insertWindForecastToInflux(spotId, windForecast, e) ==
  WritePoints(windPoints(spotId, windForecast, e.now), e.wfail)

insertWaveForecastToInflux(spotId, waveForecast, e) ==
  WritePoints(wavePoints(spotId, waveForecast, e.now), e.wfail)

insertTideForecastToInflux(spotId, tideForecast, e) ==
  WritePoints(tidePoints(spotId, tideForecast, e.now), e.wfail)

insertSpotForecastRatingToInflux(spotId, ratingForecast, e) ==
  WritePoints(ratingPoints(spotId, ratingForecast, e.now), e.wfail)

\* the WritePoint calls of one insert call ins for the spot spotId
InsertWrites(spotId, ins, e) ==
  CASE ins.kind = "wind" ->
         insertWindForecastToInflux(spotId, WindResponse(ins.nrec), e)
    [] ins.kind = "wave" ->
         insertWaveForecastToInflux(spotId, WaveResponse(ins.nrec, ins.nswell), e)
    [] ins.kind = "tide" ->
         insertTideForecastToInflux(spotId, TideResponse(ins.nrec), e)
    [] ins.kind = "rating" ->
         insertSpotForecastRatingToInflux(spotId, RatingResponse(ins.nrec), e)

\* ------------------------------------------------------------------------
\* Initial state: main has read the configuration and made the channels
\* ------------------------------------------------------------------------
\* ChanCap with the channels made unbuffered: make(chan error)
ChanCapUnbuffered == Cardinality({})

\* capacity of errCh and of doneCh: len(cfg.Spots)
ChanCap == Cardinality(DOMAIN cfgSpots)

\* no insert function is being exercised on its own
NoBuild == [spotId |-> "", kind |-> "none", out |-> << >>]

Init ==
  /\ mainPc = "spawn"
  /\ i = 0
  /\ wgCounter = 0
  /\ errCh = << >>
  /\ doneCh = << >>
  /\ crashed = FALSE
  /\ pc = [s \in SpotKeys |-> "idle"]
  /\ retries = [s \in SpotKeys |-> 0]
  /\ err = [s \in SpotKeys |-> NoErr]
  /\ attempts = [s \in SpotKeys |-> 0]
  /\ sleeps = [s \in SpotKeys |-> << >>]
  /\ calls = [s \in SpotKeys |-> << >>]
  /\ allFailed = [s \in SpotKeys |-> TRUE]
  /\ inserted = [s \in SpotKeys |-> << >>]
  /\ sent = [s \in SpotKeys |-> [err |-> 0, done |-> 0]]
  /\ logged = << >>
  /\ doneSeen = 0
  /\ env \in Envs
  /\ builder = NoBuild

\* the process is alive: no panic has ended it and main has not returned
Running == ~crashed /\ mainPc # "done"

\* ------------------------------------------------------------------------
\* The goroutine of one spot
\* ------------------------------------------------------------------------
\* what an attempt's ForecastClient calls did: all succeeded, all failed, or both
Summary(cs) ==
  IF \A k \in 1..Len(cs) : cs[k].ok THEN "allOk"
  ELSE IF \A k \in 1..Len(cs) : ~cs[k].ok THEN "allFail"
  ELSE "mixed"

Call(kind, ok, cause) == [kind |-> kind, ok |-> ok, cause |-> cause]

\* for s := range cfg.Spots { go func(spot) {...}(spotID) }: one iteration; the
\* new goroutine sets retries to 0 and stands before its first fetchAndInsert
Spawn(s) ==
  /\ Running
  /\ mainPc = "spawn"
  /\ pc[s] = "idle"
  /\ pc' = [pc EXCEPT ![s] = IF 0 < maxRetries THEN "wind" ELSE "exit"]
  /\ attempts' = [attempts EXCEPT ![s] = IF 0 < maxRetries THEN 1 ELSE 0]
  /\ retries' = [retries EXCEPT ![s] = 0]
  /\ mainPc' = IF \A t \in SpotKeys \ {s} : pc[t] # "idle" THEN "wait" ELSE "spawn"
  /\ UNCHANGED << i, wgCounter, errCh, doneCh, crashed, err, sleeps, calls, allFailed,
                  inserted, sent, logged, doneSeen, envVars >>

\* AttemptFailed without the test "if retries < maxRetries" around the sleep:
\* every failed attempt sleeps and continues
AttemptFailedNoLastCheck(s, c, e) ==
  /\ calls' = [calls EXCEPT ![s] = Append(@, c)]
  /\ err' = [err EXCEPT ![s] = e]
  /\ retries' = [retries EXCEPT ![s] = @ + 1]
  /\ pc' = [pc EXCEPT ![s] = "sleep"]
  /\ sleeps' = [sleeps EXCEPT ![s] = Append(@, retryDelay)]
  /\ UNCHANGED << inserted, attempts, allFailed, sent, crashed, errCh, doneCh >>

\* fetchAndInsert returned the error e to the retry loop: retries++, then
\* time.Sleep(retryDelay) and continue, or go on to the send on errCh
AttemptFailed(s, c, e) ==
  /\ calls' = [calls EXCEPT ![s] = Append(@, c)]
  /\ err' = [err EXCEPT ![s] = e]
  /\ retries' = [retries EXCEPT ![s] = @ + 1]
  /\ IF retries[s] + 1 < maxRetries
       THEN /\ pc' = [pc EXCEPT ![s] = "sleep"]
            /\ sleeps' = [sleeps EXCEPT ![s] = Append(@, retryDelay)]
       ELSE /\ pc' = [pc EXCEPT ![s] = "sendErr"]
            /\ UNCHANGED sleeps
  /\ UNCHANGED << inserted, attempts, allFailed, sent, crashed, errCh, doneCh >>

\* fmt.Errorf("error fetching <kind> forecast for %s: %w", spotId, err)
Errorf(kind, s, cause) ==
  [kind |-> kind, spot |-> cfgSpots[s], cause |-> cause, attempt |-> attempts[s]]

\* the insert function of a kind was called with a response of n records,
\* each wave record with m swells
InsertCall(kind, n, m) == [kind |-> kind, nrec |-> n, nswell |-> m]

\* Inserted with an insert that reports a failed write to fetchAndInsert,
\* which returns it to the retry loop
InsertedFailsOnWriteError(s, c, ins, next) ==
  LET ws == InsertWrites(cfgSpots[s], ins, env)
  IN  IF \E k \in DOMAIN ws : ~ws[k].ok
        THEN AttemptFailed(s, c, Errorf(ins.kind, s, "write error"))
        ELSE /\ calls' = [calls EXCEPT ![s] = Append(@, c)]
             /\ inserted' = [inserted EXCEPT ![s] = Append(@, ins)]
             /\ pc' = [pc EXCEPT ![s] = next]
             /\ UNCHANGED << err, retries, sleeps, attempts, allFailed, sent, crashed,
                             errCh, doneCh >>

\* the insert of an operation ran on its response: on to the next operation
Inserted(s, c, ins, next) ==
  /\ calls' = [calls EXCEPT ![s] = Append(@, c)]
  /\ inserted' = [inserted EXCEPT ![s] = Append(@, ins)]
  /\ pc' = [pc EXCEPT ![s] = next]
  /\ UNCHANGED << err, retries, sleeps, attempts, allFailed, sent, crashed, errCh, doneCh >>

\* api.GetWindForecast and the branch on its error
GetWindForecast(s) ==
  /\ Running
  /\ pc[s] = "wind"
  /\ \/ \E cause \in Causes :
          AttemptFailed(s, Call("wind", FALSE, cause), Errorf("wind", s, cause))
     \/ Inserted(s, Call("wind", TRUE, NoCause), InsertCall("wind", env.nrec, 0), "wave")
  /\ UNCHANGED << mainVars, envVars >>

\* api.GetWaveForecast and the branch on its error: err == nil returns the
\* error, err != nil runs the insert on the response that came with the error
GetWaveForecast(s) ==
  /\ Running
  /\ pc[s] = "wave"
  /\ \/ AttemptFailed(s, Call("wave", TRUE, NoCause), Errorf("wave", s, NoCause))
     \/ \E cause \in Causes, resp \in {NilResponse, WaveResponse(env.nrec, env.nswell)} :
          IF resp.nil
            THEN \* waveForecast.Data of a nil pointer: panic, the process dies
                 /\ crashed' = TRUE
                 /\ calls' = [calls EXCEPT ![s] = Append(@, Call("wave", FALSE, cause))]
                 /\ pc' = [pc EXCEPT ![s] = "panic"]
                 /\ UNCHANGED << err, retries, sleeps, attempts, allFailed, sent, inserted,
                                 errCh, doneCh >>
            ELSE Inserted(s, Call("wave", FALSE, cause),
                          InsertCall("wave", Len(resp.Data.Wave), env.nswell), "tide")
  /\ UNCHANGED << mainVars, envVars >>

\* GetTideForecast with no return in the branch on its error: the attempt
\* goes on to the rating
GetTideForecastNoReturn(s) ==
  /\ Running
  /\ pc[s] = "tide"
  /\ \/ \E cause \in Causes :
          /\ calls' = [calls EXCEPT ![s] = Append(@, Call("tide", FALSE, cause))]
          /\ pc' = [pc EXCEPT ![s] = "rating"]
          /\ UNCHANGED << inserted, err, retries, sleeps, attempts, allFailed, sent, crashed,
                          errCh, doneCh >>
     \/ Inserted(s, Call("tide", TRUE, NoCause), InsertCall("tide", env.nrec, 0), "rating")
  /\ UNCHANGED << mainVars, envVars >>

\* api.GetTideForecast and the branch on its error
GetTideForecast(s) ==
  /\ Running
  /\ pc[s] = "tide"
  /\ \/ \E cause \in Causes :
          AttemptFailed(s, Call("tide", FALSE, cause), Errorf("tide", s, cause))
     \/ Inserted(s, Call("tide", TRUE, NoCause), InsertCall("tide", env.nrec, 0), "rating")
  /\ UNCHANGED << mainVars, envVars >>

\* api.GetSpotForecastRating and the branch on its error; then return nil
GetSpotForecastRating(s) ==
  /\ Running
  /\ pc[s] = "rating"
  /\ \/ \E cause \in Causes :
          AttemptFailed(s, Call("rating", FALSE, cause), Errorf("rating", s, cause))
     \/ Inserted(s, Call("rating", TRUE, NoCause), InsertCall("rating", env.nrec, 0),
                 "sendDone")
  /\ UNCHANGED << mainVars, envVars >>

\* back at "for retries < maxRetries": the next call of fetchAndInsert, or
\* the end of the goroutine
LoopHead(s) ==
  /\ allFailed' = [allFailed EXCEPT ![s] = @ /\ Summary(calls[s]) = "allFail"]
  /\ calls' = [calls EXCEPT ![s] = << >>]
  /\ err' = [err EXCEPT ![s] = NoErr]
  /\ IF retries[s] < maxRetries
       THEN /\ pc' = [pc EXCEPT ![s] = "wind"]
            /\ attempts' = [attempts EXCEPT ![s] = @ + 1]
            /\ inserted' = [inserted EXCEPT ![s] = << >>]
       ELSE /\ pc' = [pc EXCEPT ![s] = "exit"]
            /\ UNCHANGED << attempts, inserted >>
  /\ UNCHANGED << retries, sleeps, crashed >>

\* time.Sleep(retryDelay) returns; continue
Wake(s) ==
  /\ Running
  /\ pc[s] = "sleep"
  /\ LoopHead(s)
  /\ UNCHANGED << mainVars, envVars, errCh, doneCh, sent >>

\* SendErr on a channel that buffers a single value: make(chan error, 1)
SendErrBufferOfOne(s) ==
  /\ Running
  /\ pc[s] = "sendErr"
  /\ errCh = << >>
  /\ errCh' = Append(errCh, err[s])
  /\ sent' = [sent EXCEPT ![s].err = @ + 1]
  /\ LoopHead(s)
  /\ UNCHANGED << mainVars, envVars, doneCh >>

\* errCh <- err, which blocks while the buffer is full
SendErr(s) ==
  /\ Running
  /\ pc[s] = "sendErr"
  /\ Len(errCh) < ChanCap
  /\ errCh' = Append(errCh, err[s])
  /\ sent' = [sent EXCEPT ![s].err = @ + 1]
  /\ LoopHead(s)
  /\ UNCHANGED << mainVars, envVars, doneCh >>

\* SendDone without the break: the loop goes on after the send
SendDoneNoBreak(s) ==
  /\ Running
  /\ pc[s] = "sendDone"
  /\ Len(doneCh) < ChanCap
  /\ doneCh' = Append(doneCh, TRUE)
  /\ sent' = [sent EXCEPT ![s].done = @ + 1]
  /\ LoopHead(s)
  /\ UNCHANGED << mainVars, envVars, errCh >>

\* doneCh <- true, which blocks while the buffer is full; break
SendDone(s) ==
  /\ Running
  /\ pc[s] = "sendDone"
  /\ Len(doneCh) < ChanCap
  /\ doneCh' = Append(doneCh, TRUE)
  /\ sent' = [sent EXCEPT ![s].done = @ + 1]
  /\ allFailed' = [allFailed EXCEPT ![s] = @ /\ Summary(calls[s]) = "allFail"]
  /\ calls' = [calls EXCEPT ![s] = << >>]
  /\ pc' = [pc EXCEPT ![s] = "exit"]
  /\ UNCHANGED << mainVars, envVars, errCh, err, retries, sleeps, attempts, inserted, crashed >>

\* ------------------------------------------------------------------------
\* main after the spawn loop
\* ------------------------------------------------------------------------
\* WgWait with main returning right after wg.Wait(), without the collection loop
WgWaitThenReturn ==
  /\ Running
  /\ mainPc = "wait"
  /\ wgCounter = 0
  /\ mainPc' = "done"
  /\ UNCHANGED << i, wgCounter, logged, doneSeen, errCh, doneCh, crashed, spotVars, envVars >>

\* wg.Wait(): returns when the counter of wg is zero
WgWait ==
  /\ Running
  /\ mainPc = "wait"
  /\ wgCounter = 0
  /\ mainPc' = IF i < ChanCap THEN "collect" ELSE "done"
  /\ UNCHANGED << i, wgCounter, logged, doneSeen, errCh, doneCh, crashed, spotVars, envVars >>

\* one iteration of the collection loop taking case err := <-errCh
CollectErr ==
  /\ Running
  /\ mainPc = "collect"
  /\ errCh # << >>
  /\ logged' = Append(logged, Head(errCh))
  /\ errCh' = Tail(errCh)
  /\ i' = i + 1
  /\ mainPc' = IF i + 1 < ChanCap THEN "collect" ELSE "done"
  /\ UNCHANGED << wgCounter, doneSeen, doneCh, crashed, spotVars, envVars >>

\* one iteration of the collection loop taking case <-doneCh
CollectDone ==
  /\ Running
  /\ mainPc = "collect"
  /\ doneCh # << >>
  /\ doneSeen' = doneSeen + 1
  /\ doneCh' = Tail(doneCh)
  /\ i' = i + 1
  /\ mainPc' = IF i + 1 < ChanCap THEN "collect" ELSE "done"
  /\ UNCHANGED << wgCounter, logged, errCh, crashed, spotVars, envVars >>

GoroutineStep(s) ==
  \/ GetWindForecast(s)
  \/ GetWaveForecast(s)
  \/ GetTideForecast(s)
  \/ GetSpotForecastRating(s)
  \/ Wake(s)
  \/ SendErr(s)
  \/ SendDone(s)

MainStep == (\E s \in SpotKeys : Spawn(s)) \/ WgWait \/ CollectErr \/ CollectDone

Next == MainStep \/ \E s \in SpotKeys : GoroutineStep(s)

Spec == Init /\ [][Next]_vars

\* ------------------------------------------------------------------------
\* Properties
\* ------------------------------------------------------------------------
Last(q) == q[Len(q)]

\* the errors the goroutines have put on errCh, received by main or not
Reported ==
  [k \in 1..(Len(logged) + Len(errCh)) |->
     IF k <= Len(logged) THEN logged[k] ELSE errCh[k - Len(logged)]]

ErrorsOf(s) == {k \in DOMAIN Reported : Reported[k].spot = cfgSpots[s]}

\* the spot is inside a call of fetchAndInsert
InAttempt(s) == pc[s] \in {"wind", "wave", "tide", "rating"}

\* the spot's current call of fetchAndInsert has returned an error / nil
ReturnedError(s) == pc[s] \in {"sleep", "sendErr"}

ReturnedNil(s) == pc[s] = "sendDone"

\* every ForecastClient call made for the spot so far has failed
AlwaysFails(s) == allFailed[s] /\ \A k \in 1..Len(calls[s]) : ~calls[s][k].ok

\* C1: a spot all of whose ForecastClient calls fail sleeps retryDelay (5 s)
\* after each attempt but the last, never makes more than maxRetries (3)
\* attempts, and when its goroutine is over it has made exactly 3 attempts and
\* 2 delays and has sent exactly one message, an error on errCh, which is the
\* error returned by the third attempt.
C1_AlwaysFailingSpot ==
  \A s \in SpotKeys :
    AlwaysFails(s) =>
      /\ attempts[s] <= 3
      /\ \A k \in 1..Len(sleeps[s]) : sleeps[s][k] = 5
      /\ Len(sleeps[s]) = (IF pc[s] = "sleep" THEN attempts[s] ELSE attempts[s] - 1)
            \/ pc[s] = "idle"
      /\ ReturnedError(s) =>
           /\ err[s].attempt = attempts[s]
           /\ err[s].cause = Last(calls[s]).cause
           /\ err[s].cause \in Causes
           /\ (pc[s] = "sendErr") = (attempts[s] = 3)
      /\ pc[s] = "exit" =>
           /\ attempts[s] = 3
           /\ sleeps[s] = <<5, 5>>
           /\ sent[s] = [err |-> 1, done |-> 0]
           /\ Cardinality(ErrorsOf(s)) = 1
           /\ \A k \in ErrorsOf(s) :
                Reported[k].attempt = 3 /\ Reported[k].cause \in Causes

C1_Witness ==
  \E s \in SpotKeys :
    /\ pc[s] = "exit"
    /\ AlwaysFails(s)
    /\ attempts[s] = 3
    /\ sleeps[s] = <<5, 5>>
    /\ \E k \in DOMAIN logged : logged[k].spot = cfgSpots[s] /\ logged[k].attempt = 3

\* C2: a spot whose calls failed in its first two attempts and whose calls
\* all succeed in the third reports Success: once the third attempt is over,
\* the goroutine is at the send on doneCh.
C2_FailTwiceThenSucceed ==
  \A s \in SpotKeys :
    ( /\ attempts[s] = 3
      /\ allFailed[s]
      /\ ~InAttempt(s)
      /\ calls[s] # << >>
      /\ \A k \in 1..Len(calls[s]) : calls[s][k].ok )
    => ReturnedNil(s)

\* the WritePoint calls the spot's current attempt has made, with their results
Written(s) ==
  Flatten([k \in 1..Len(inserted[s]) |-> InsertWrites(cfgSpots[s], inserted[s][k], env)])

\* the points fetchAndInsert is to write when all four operations succeed
AllPoints(s) ==
  insertWindForecastToInflux(cfgSpots[s], WindResponse(env.nrec), env)
  \o insertWaveForecastToInflux(cfgSpots[s], WaveResponse(env.nrec, env.nswell), env)
  \o insertTideForecastToInflux(cfgSpots[s], TideResponse(env.nrec), env)
  \o insertSpotForecastRatingToInflux(cfgSpots[s], RatingResponse(env.nrec), env)

\* C3: an attempt that is over and in which no ForecastClient operation
\* failed has called all four operations, has passed the points of all four
\* kinds to the sink and has returned nil.
C3_AllFourWritten ==
  \A s \in SpotKeys :
    (~InAttempt(s) /\ calls[s] # << >> /\ \A k \in 1..Len(calls[s]) : calls[s][k].ok)
    => /\ Len(calls[s]) = 4
       /\ Written(s) = AllPoints(s)
       /\ ReturnedNil(s)

\* C4: an operation that returned an error ends the attempt with an error
\* that names the operation's kind and carries its cause, and an attempt
\* returns an error only if its last operation returned one.
C4_FailureIffOperationFailed ==
  \A s \in SpotKeys :
    /\ \A k \in 1..Len(calls[s]) :
         ~calls[s][k].ok =>
           /\ k = Len(calls[s])
           /\ ReturnedError(s)
           /\ err[s].kind = calls[s][k].kind
           /\ err[s].cause = calls[s][k].cause
    /\ ReturnedError(s) => ~Last(calls[s]).ok

\* C5: no failure of a ForecastClient operation ends the process: the
\* goroutine of a spot whose operation failed goes on to a terminal outcome.
C5_FailureNeverEndsProcess ==
  \A s \in SpotKeys :
    (\E k \in 1..Len(calls[s]) : ~calls[s][k].ok) => (~crashed /\ pc[s] # "panic")

\* number of channel sends the spot's goroutine has made
Sends(s) == sent[s].err + sent[s].done

\* the process is over: main has returned or a panic has ended it
ProcessOver == mainPc = "done" \/ crashed

\* C6: every configured spot is reported exactly once over a run: no
\* goroutine sends twice, and when the process is over every goroutine has
\* sent exactly one message and main has consumed one outcome per spot.
C6_EverySpotReportedOnce ==
  /\ \A s \in SpotKeys : Sends(s) <= 1
  /\ ProcessOver =>
       /\ \A s \in SpotKeys : Sends(s) = 1
       /\ i = NumSpots
       /\ Len(logged) + doneSeen = NumSpots

\* C7: main has not returned in any state in which a spot's goroutine has
\* not yet made its single send on errCh or doneCh.
C7_Barrier ==
  mainPc = "done" => \A s \in SpotKeys : pc[s] = "exit" /\ Sends(s) = 1

C7_Witness ==
  /\ mainPc = "done"
  /\ \E s \in SpotKeys : attempts[s] = 3 /\ sent[s].err = 1
  /\ \E s \in SpotKeys : sent[s].done = 1

\* one of the spot's attempts has returned nil
Succeeded(s) == pc[s] = "sendDone" \/ sent[s].done = 1

\* C8: no spot ever makes more than 3 attempts, and once an attempt of a
\* spot has succeeded no step adds an attempt or a retry delay for it.
C8_BoundedAndStopsAtSuccess ==
  /\ [](\A s \in SpotKeys : attempts[s] <= 3)
  /\ [][\A s \in SpotKeys :
          Succeeded(s) => (attempts'[s] = attempts[s] /\ sleeps'[s] = sleeps[s])]_vars

C8_Witness ==
  \E s \in SpotKeys :
    pc[s] = "exit" /\ sent[s].done = 1 /\ attempts[s] = 2 /\ Len(sleeps[s]) = 1

\* the spot's goroutine has been started and is not over
Active(s) == pc[s] \in {"wind", "wave", "tide", "rating", "sleep", "sendErr", "sendDone"}

\* C9: while the process is alive, a spot A that is in a retry delay or has
\* had an attempt fail never disables the next step of another spot B.
C9_NoCrossSpotBlocking ==
  \A a \in SpotKeys, b \in SpotKeys :
    (a # b /\ Running /\ Active(b) /\ (pc[a] = "sleep" \/ retries[a] > 0))
    => ENABLED GoroutineStep(b)

\* B succeeded at its first attempt and main has its outcome while A, all of
\* whose calls failed, is in its first retry delay
C9_Witness ==
  \E a \in SpotKeys, b \in SpotKeys :
    /\ a # b
    /\ pc[a] = "sleep" /\ attempts[a] = 1 /\ AlwaysFails(a)
    /\ pc[b] = "exit" /\ attempts[b] = 1 /\ sent[b].done = 1
    /\ doneSeen = 1

\* the Go scheduler runs every goroutine that can take a step
FairSpec ==
  /\ Spec
  /\ WF_vars(MainStep)
  /\ \A s \in SpotKeys : WF_vars(GoroutineStep(s))

\* C10: under fair scheduling every run terminates: every spot's goroutine
\* reaches its terminal outcome and main finishes the collection and returns.
C10_RunTerminates == <>(mainPc = "done" /\ \A s \in SpotKeys : pc[s] = "exit")

\* ------------------------------------------------------------------------
\* The insert functions on their own: one call on one response
\* ------------------------------------------------------------------------
\* readings of time.Now() from two hours before to two hours after BaseTime,
\* on and off the hour
BuilderNows ==
  { BaseTime - 7200, BaseTime - 5400, BaseTime - 1800, BaseTime - 1, BaseTime,
    BaseTime + 1800, BaseTime + 3600, BaseTime + 7200 }

BuilderEnvs ==
  { [now |-> t, nrec |-> n, nswell |-> m, wfail |-> w] :
      t \in BuilderNows, n \in 0..MaxRecords, m \in 0..MaxSwells,
      w \in {"none", "all", "odd"} }

BuilderSpotIds == {SpotIdPool[k] : k \in DOMAIN SpotIdPool}

BuilderInit ==
  /\ mainPc = "spawn"
  /\ i = 0
  /\ wgCounter = 0
  /\ errCh = << >>
  /\ doneCh = << >>
  /\ crashed = FALSE
  /\ pc = [s \in SpotKeys |-> "idle"]
  /\ retries = [s \in SpotKeys |-> 0]
  /\ err = [s \in SpotKeys |-> NoErr]
  /\ attempts = [s \in SpotKeys |-> 0]
  /\ sleeps = [s \in SpotKeys |-> << >>]
  /\ calls = [s \in SpotKeys |-> << >>]
  /\ allFailed = [s \in SpotKeys |-> TRUE]
  /\ inserted = [s \in SpotKeys |-> << >>]
  /\ sent = [s \in SpotKeys |-> [err |-> 0, done |-> 0]]
  /\ logged = << >>
  /\ doneSeen = 0
  /\ env \in BuilderEnvs
  /\ builder \in {[spotId |-> id, kind |-> "none", out |-> << >>] : id \in BuilderSpotIds}

\* the call is made: builder.out holds its WritePoint calls with their results
Build(kind, out) ==
  /\ builder.kind = "none"
  /\ builder' = [builder EXCEPT !.kind = kind, !.out = out]
  /\ UNCHANGED << mainVars, spotVars, errCh, doneCh, crashed, env >>

BuildWind ==
  Build("wind", insertWindForecastToInflux(builder.spotId, WindResponse(env.nrec), env))

BuildWave ==
  Build("wave",
        insertWaveForecastToInflux(builder.spotId, WaveResponse(env.nrec, env.nswell), env))

BuildTide ==
  Build("tide", insertTideForecastToInflux(builder.spotId, TideResponse(env.nrec), env))

BuildRating ==
  Build("rating",
        insertSpotForecastRatingToInflux(builder.spotId, RatingResponse(env.nrec), env))

BuilderNext == BuildWind \/ BuildWave \/ BuildTide \/ BuildRating

BuilderSpec == BuilderInit /\ [][BuilderNext]_vars

\* ------------------------------------------------------------------------
\* Properties of the insert functions
\* ------------------------------------------------------------------------
\* an insert function has been called and has returned
Built == builder.kind # "none"

\* the WritePoint calls of the insert that were made for record k of the response
CallsOfRecord(k) == {j \in DOMAIN builder.out : builder.out[j].point.ts = RecTimestamp(k)}

\* the points the code builds for one record of the response of kind
PointsPerRecord(kind) == IF kind = "wave" THEN 2 * (1 + env.nswell) ELSE 2

\* C11: a failed WritePoint call never prevents the later ones: in every
\* insert function every point of every record of the response is passed to
\* WritePoint, whichever of the earlier calls returned an error.
C11_WriteFailureNeverStopsWrites ==
  Built =>
    /\ Len(builder.out) = env.nrec * PointsPerRecord(builder.kind)
    /\ \A k \in 1..env.nrec : Cardinality(CallsOfRecord(k)) = PointsPerRecord(builder.kind)
    /\ \A j \in DOMAIN builder.out : builder.out[j].ok = WriteOk(env.wfail, j)

\* a write has failed and the insert went on to write the next point
C11_Witness ==
  /\ Built
  /\ \E j \in DOMAIN builder.out : ~builder.out[j].ok /\ j < Len(builder.out)

\* the call at which fetchAndInsert takes a "return fmt.Errorf(...)" branch
ReturnsErrorAt(c) == IF c.kind = "wave" THEN c.ok ELSE ~c.ok

\* a WritePoint call of the spot's current attempt returned an error
WriteFailed(s) == \E k \in DOMAIN Written(s) : ~Written(s)[k].ok

\* C12: failed writes do not count against the retry budget: whether or not
\* WritePoint calls fail, an attempt returns an error only from the branch on
\* a ForecastClient result, an attempt that passed the four branches returns
\* nil, and retries counts exactly the attempts that returned an error.
C12_WriteFailuresNotInBudget ==
  \A s \in SpotKeys :
    /\ ReturnedError(s) =>
         /\ ReturnsErrorAt(Last(calls[s]))
         /\ err[s].kind = Last(calls[s]).kind
         /\ retries[s] = attempts[s]
    /\ ReturnedNil(s) =>
         /\ Len(calls[s]) = 4
         /\ \A k \in 1..4 : ~ReturnsErrorAt(calls[s][k])
         /\ retries[s] = attempts[s] - 1
    /\ InAttempt(s) => retries[s] = attempts[s] - 1
    /\ retries[s] <= maxRetries

\* a first attempt returned nil although WritePoint calls of it failed
C12_Witness ==
  \E s \in SpotKeys :
    /\ ReturnedNil(s)
    /\ WriteFailed(s)
    /\ attempts[s] = 1
    /\ retries[s] = 0

\* the points of the insert, in the order in which they were passed to WritePoint
BuiltPoints == [j \in DOMAIN builder.out |-> builder.out[j].point]

\* the tag set t without the tag named key
WithoutTag(t, key) == [x \in DOMAIN t \ {key} |-> t[x]]

\* the two points the code writes one after the other for a record (or for a
\* swell of a wave record): first the age-bearing variant, then the other
VariantPairs == {j \in DOMAIN builder.out : j % 2 = 1}

\* C13: the two points written for a record of any kind (wind, wave, swell,
\* tide, rating) have the same fields and the same timestamp, and their tag
\* sets differ exactly by age_h: present in the first, absent from the second.
C13_VariantsDifferExactlyByAge ==
  Built =>
    \A j \in VariantPairs :
      LET withAge == BuiltPoints[j]
          withoutAge == BuiltPoints[j + 1]
      IN  /\ withAge.measurement = withoutAge.measurement
          /\ withAge.fields = withoutAge.fields
          /\ withAge.ts = withoutAge.ts
          /\ "age_h" \in DOMAIN withAge.tags
          /\ "age_h" \notin DOMAIN withoutAge.tags
          /\ withoutAge.tags = WithoutTag(withAge.tags, "age_h")

\* C14: the age_h tag of every point is floor((C - T) / 3600 s) for the
\* record's timestamp T and the current time C, also when T > C
\* (C - T = -1800 s gives -1, C - T = 7200 s gives 2); \div is the floor.
C14_AgeIsFloorOfHours ==
  Built =>
    \A j \in DOMAIN BuiltPoints :
      "age_h" \in DOMAIN BuiltPoints[j].tags =>
        BuiltPoints[j].tags["age_h"] = FormatInt((env.now - BuiltPoints[j].ts) \div 3600)

\* the WritePoint calls made for record k under the measurement name
CallsOfRecordUnder(k, name) ==
  {j \in CallsOfRecord(k) : BuiltPoints[j].measurement = name}

\* C15: for a wave record with N swells (N >= 0) exactly 2 * (N + 1) points
\* are written, 2 under "waveForecast" and 2 * N under "swellForecast", and
\* every swell point carries the timestamp of its wave record and one of the
\* wave record's two tag sets.
C15_WaveRecordPointCount ==
  (Built /\ builder.kind = "wave") =>
    /\ Len(builder.out) = env.nrec * 2 * (env.nswell + 1)
    /\ \A k \in 1..env.nrec :
         LET waves == CallsOfRecordUnder(k, "waveForecast")
             swells == CallsOfRecordUnder(k, "swellForecast")
         IN  /\ Cardinality(waves) = 2
             /\ Cardinality(swells) = 2 * env.nswell
             /\ Cardinality(CallsOfRecord(k)) = 2 * (env.nswell + 1)
             /\ \A j \in swells :
                  /\ BuiltPoints[j].ts = WaveResponse(env.nrec, env.nswell).Data.Wave[k].Timestamp
                  /\ \E w \in waves : BuiltPoints[j].tags = BuiltPoints[w].tags

\* a wave record with at least one swell has been written
C15_Witness ==
  /\ Built
  /\ builder.kind = "wave"
  /\ env.nrec >= 1
  /\ env.nswell >= 1
  /\ \E j \in DOMAIN BuiltPoints : BuiltPoints[j].measurement = "swellForecast"

\* C16: every point passed to the sink has a measurement name among
\* "windForecast", "waveForecast", "swellForecast", "tideForecast" and
\* "spotForecastRating", and every point of a rating record is written under
\* "spotForecastRating".
C16_MeasurementNames ==
  Built =>
    \A j \in DOMAIN BuiltPoints :
      /\ BuiltPoints[j].measurement \in
           {"windForecast", "waveForecast", "swellForecast", "tideForecast",
            "spotForecastRating"}
      /\ builder.kind = "rating" => BuiltPoints[j].measurement = "spotForecastRating"

\* the identifiers that getFriendlyNameForSpot maps to a name
MappedSpotIds ==
  { "5842041f4e65fad6a7708841", "5842041f4e65fad6a770883c",
    "5842041f4e65fad6a77088cc", "5842041f4e65fad6a770883f" }

\* the WritePoint calls of the same insert on the same response for a spot
\* whose identifier is mapped
BuiltForMapped(id) ==
  InsertWrites(id, InsertCall(builder.kind, env.nrec, env.nswell), env)

\* C17: for a spot identifier that is not mapped getFriendlyNameForSpot
\* returns "Unknown" and the insert is not cut short: it writes as many points
\* as for a mapped identifier, each with the tag spotName = "Unknown".
C17_UnmappedSpotIsUnknown ==
  (Built /\ builder.spotId \notin MappedSpotIds) =>
    /\ getFriendlyNameForSpot(builder.spotId) = "Unknown"
    /\ \A id \in MappedSpotIds :
         /\ getFriendlyNameForSpot(id) # "Unknown"
         /\ Len(builder.out) = Len(BuiltForMapped(id))
    /\ \A j \in DOMAIN BuiltPoints :
         /\ BuiltPoints[j].tags["spotName"] = "Unknown"
         /\ BuiltPoints[j].tags["spotId"] = builder.spotId

\* an insert for an unmapped identifier has written points
C17_Witness ==
  /\ Built
  /\ builder.spotId \notin MappedSpotIds
  /\ Len(builder.out) >= 2
  /\ BuiltPoints[1].tags["spotName"] = "Unknown"

\* ------------------------------------------------------------------------
\* Properties of main and the goroutines, continued
\* ------------------------------------------------------------------------
\* the spot's goroutine has returned
Finished(s) == pc[s] = "exit"

\* C18: when wg.Wait() has returned, every spot's goroutine has finished:
\* main is never in the collection loop while a goroutine is still in an
\* attempt, asleep or about to send its outcome.
C18_WaitIsABarrier ==
  mainPc = "collect" => \A s \in SpotKeys : Finished(s)

\* C19: a goroutine's send of its outcome never blocks, wherever main is in
\* the collection loop: errCh and doneCh each hold at most as many values as
\* there are configured spots, a goroutine that is at a send can always make
\* it, and while the process runs some goroutine or main can take a step.
C19_SendNeverBlocks ==
  /\ Len(errCh) <= Cardinality(DOMAIN cfgSpots)
  /\ Len(doneCh) <= Cardinality(DOMAIN cfgSpots)
  /\ Len(errCh) + Len(doneCh) + i <= Cardinality(DOMAIN cfgSpots)
  /\ Running =>
       /\ \A s \in SpotKeys :
            /\ pc[s] = "sendErr" => ENABLED SendErr(s)
            /\ pc[s] = "sendDone" => ENABLED SendDone(s)
       /\ ENABLED Next

\* main is in the collection loop and has received nothing, one outcome is
\* buffered in each channel
C19_Witness ==
  /\ mainPc = "collect"
  /\ i = 0
  /\ Len(errCh) = 1
  /\ Len(doneCh) = 1

\* the order of the operations in fetchAndInsert
OperationOrder == << "wind", "wave", "tide", "rating" >>

\* the insert calls an attempt has made once its first n operations passed
InsertsOfFirst(n) ==
  [k \in 1..n |->
     InsertCall(OperationOrder[k], env.nrec,
                IF OperationOrder[k] = "wave" THEN env.nswell ELSE 0)]

\* the kinds whose points are among the WritePoint calls of the current attempt
WrittenKinds(s) == {inserted[s][k].kind : k \in DOMAIN inserted[s]}

\* C20: in every attempt, the first and each retry, the operations are called
\* in the order wind, wave, tide, rating; the operation at which the attempt
\* returns an error is its last one, no later operation is called and no
\* point of a later kind is written, and the points of the earlier kinds
\* have been written, in this attempt again, and stay written.
C20_OrderedShortCircuit ==
  \A s \in SpotKeys :
    /\ Len(calls[s]) <= 4
    /\ \A k \in DOMAIN calls[s] :
         /\ calls[s][k].kind = OperationOrder[k]
         /\ ReturnsErrorAt(calls[s][k]) =>
              /\ k = Len(calls[s])
              /\ ReturnedError(s)
              /\ err[s].kind = OperationOrder[k]
    /\ ReturnedError(s) =>
         /\ ReturnsErrorAt(Last(calls[s]))
         /\ inserted[s] = InsertsOfFirst(Len(calls[s]) - 1)
         /\ WrittenKinds(s) = {OperationOrder[k] : k \in 1..(Len(calls[s]) - 1)}
    /\ InAttempt(s) =>
         /\ pc[s] = OperationOrder[Len(calls[s]) + 1]
         /\ inserted[s] = InsertsOfFirst(Len(calls[s]))

\* a second attempt returned an error at the wave operation after it wrote
\* the wind points again: the first attempt wrote them too
C20_Witness ==
  \E s \in SpotKeys :
    /\ attempts[s] = 2
    /\ ~allFailed[s]
    /\ ReturnedError(s)
    /\ err[s].kind = "wave"
    /\ WrittenKinds(s) = {"wind"}
    /\ Len(Written(s)) = 2 * env.nrec

====
